---- MODULE Spec2Model ----
(***************************************************************************)
(* Model of backend/app/apis/code_testing/__init__.py: the endpoint        *)
(* test_javascript_code, which runs a candidate JavaScript program against *)
(* a list of test cases through execjs and reports one TestResult per case *)
(* plus a score.                                                           *)
(*                                                                         *)
(* Text is a sequence of characters (one-character strings); a fixed       *)
(* message fragment is written as one multi-character element.             *)
(***************************************************************************)
EXTENDS Integers, Sequences, FiniteSets, TLC

\* request           the CodeTestRequest
\* runtime           what execjs does with a program in this deployment:
\*                   "runs" it, "rejects" its text (ctx.eval raises for every
\*                   program, as an execjs that evaluates its argument as one
\*                   parenthesised expression does with a text that begins with
\*                   a const declaration), or is "unavailable" (execjs.compile
\*                   finds no JavaScript runtime)
\* pc                where test_javascript_code stands
\* idx               the index of the test case the loop of line 68 is at
\* results, passed_count   the locals of lines 50-51
\* ctx               the global object of the context created last
\* cases_run         how many times the body of the loop was entered
\* response          the CodeTestResponse returned, once returned
VARIABLES request, runtime, pc, idx, results, passed_count, ctx,
          cases_run, response

vars == <<request, runtime, pc, idx, results, passed_count, ctx,
          cases_run, response>>

\* Largest number of test cases in a request of the model.
MaxCases == 2

Quote == "\""
Backslash == "\\"

-----------------------------------------------------------------------------
(* Values shared by the JavaScript side and the Python side.               *)

JNum(d) == [t |-> "num", s |-> d]
JStr(s) == [t |-> "str", s |-> s]
JBool(b) == [t |-> "bool", b |-> b]
JArr(items) == [t |-> "arr", items |-> items]
JObj(fields) == [t |-> "obj", fields |-> fields]
JErr(s) == [t |-> "err", s |-> s]
JUndefined == [t |-> "undef"]
JNull == [t |-> "null"]

Field(k, v) == [k |-> k, v |-> v]

None == [none |-> TRUE]
Some(x) == [none |-> FALSE, v |-> x]

Ok(v) == [ok |-> TRUE, v |-> v]
Raise(msg) == [ok |-> FALSE, exc |-> msg]

\* str.startswith / str.endswith with a one-character argument, and s[1:-1].
startswith(s, c) == Len(s) > 0 /\ s[1] = c
endswith(s, c) == Len(s) > 0 /\ s[Len(s)] = c
StripEnds(s) == SubSeq(s, 2, Len(s) - 1)

\* str.lower() on the letters the model's language tags use.
LowerChar(c) ==
    CASE c = "J" -> "j"
      [] c = "S" -> "s"
      [] c = "P" -> "p"
      [] OTHER -> c

\* The tag compared as it was sent.
lower_unchanged(s) == s

\* Line 36: request.language.lower()
lower(s) == [k \in 1..Len(s) |-> LowerChar(s[k])]

-----------------------------------------------------------------------------
(* JSON.stringify, as the JavaScript wrapper and execjs apply it.          *)

RECURSIVE EscapeText(_)
EscapeText(s) ==
    IF s = <<>> THEN <<>>
    ELSE (IF Head(s) \in {Quote, Backslash}
          THEN <<Backslash, Head(s)>>
          ELSE <<Head(s)>>) \o EscapeText(Tail(s))

RECURSIVE StringifyText(_)
RECURSIVE JoinItems(_)
RECURSIVE JoinFields(_, _)

\* The elements of an array, comma separated.
JoinItems(items) ==
    IF items = <<>> THEN <<>>
    ELSE StringifyText(Head(items))
         \o (IF Tail(items) = <<>> THEN <<>> ELSE <<",">> \o JoinItems(Tail(items)))

\* The members of an object, comma separated; a member whose value is
\* undefined is left out.
JoinFields(fields, first) ==
    IF fields = <<>> THEN <<>>
    ELSE IF Head(fields).v = JUndefined THEN JoinFields(Tail(fields), first)
    ELSE (IF first THEN <<>> ELSE <<",">>)
         \o <<Quote, Head(fields).k, Quote, ":">>
         \o StringifyText(Head(fields).v)
         \o JoinFields(Tail(fields), FALSE)

StringifyText(v) ==
    CASE v.t = "num" -> v.s
      [] v.t = "str" -> <<Quote>> \o EscapeText(v.s) \o <<Quote>>
      [] v.t = "bool" -> IF v.b THEN <<"true">> ELSE <<"false">>
      [] v.t = "null" -> <<"null">>
      [] v.t = "arr" -> <<"[">> \o JoinItems(v.items) \o <<"]">>
      [] v.t = "obj" -> <<"{">> \o JoinFields(v.fields, TRUE) \o <<"}">>

\* JSON.stringify(v): a text value, or undefined for undefined.
JSON_stringify(v) ==
    IF v = JUndefined THEN JUndefined ELSE JStr(StringifyText(v))

-----------------------------------------------------------------------------
(* The requests of the model.                                              *)

Javascript == <<"j", "a", "v", "a", "s", "c", "r", "i", "p", "t">>
JavaScriptMixed == <<"J", "a", "v", "a", "S", "c", "r", "i", "p", "t">>
Python == <<"P", "y", "t", "h", "o", "n">>

Runtimes == {"runs", "rejects", "unavailable"}

Languages == {Javascript, JavaScriptMixed, Python, <<>>}

\* Candidate programs, by what they do when the wrapper runs them:
\*   function      function f() { return 4; }
\*   throwError    throw new Error("boom")
\*   throwEmpty    throw ""
\*   throwNull     throw null
\*   syntaxError   function (
\*   loop          while (true) {}
\*   selfReport    return JSON.stringify({success: true,
\*                                        result: JSON.stringify(eval(input))})
\*   counter       n = (typeof n === "undefined" ? 0 : n) + 1;
\*                 return JSON.stringify({success: true, result: String(n)})
\*   reportFail    return JSON.stringify({success: false})
\*   reportNumber  return JSON.stringify({success: true, result: 4})
\*   returnText    return "4"
Codes == {"function", "throwError", "throwEmpty", "throwNull", "syntaxError",
          "loop", "selfReport", "counter", "reportFail", "reportNumber",
          "returnText"}

Four == JNum(<<"4">>)
Hi == JStr(<<"h", "i">>)
QuotedText == JStr(<<"a", Quote, "b">>)

\* The values the literal input expressions of the model denote.
ExprValues == {Four, Hi, JStr(<<>>), QuotedText, JArr(<<Four>>)}

TestCase(input, expectedOutput) ==
    [input |-> input, expectedOutput |-> expectedOutput]

\* (input expression text, expected output text)
Cases ==
    { TestCase(<<"4">>, <<"4">>),
      TestCase(<<"4">>, <<"1">>),
      TestCase(<<"f()">>, <<"4">>),
      TestCase(<<Quote, "h", "i", Quote>>, <<"h", "i">>),
      TestCase(<<Quote, Quote>>, <<>>),
      TestCase(<<Quote, "a", Backslash, Quote, "b", Quote>>, <<"a", Quote, "b">>),
      TestCase(<<"[", "4", "]">>, <<"[", "4", "]">>),
      TestCase(<<"undefined">>, <<>>),
      TestCase(<<"(">>, <<"4">>) }

\* The sequences over S of at most n elements.
SeqsUpTo(S, n) == UNION {[1..m -> S] : m \in 0..n}

-----------------------------------------------------------------------------
(* The JavaScript side: the program of lines 54-66 and 71-74, run by       *)
(* execjs.                                                                 *)

\* The global object of a context: the value of the global n, 0 when n is
\* not defined.
EmptyGlobals == [n |-> 0]

DigitText(n) == <<<<"0", "1", "2", "3", "4", "5", "6", "7", "8", "9">>[n + 1]>>

\* eval(input): input holds the test case's input text, evaluated as an
\* expression in the scope of the candidate code (hasF: f is declared).
EvalExpr(hasF, text) ==
    IF text = <<"undefined">> THEN Ok(JUndefined)
    ELSE IF text = <<"f()">>
    THEN IF hasF THEN Ok(Four)
         ELSE Raise(JErr(<<"ReferenceError: f is not defined">>))
    ELSE IF \E v \in ExprValues : StringifyText(v) = text
    THEN Ok(CHOOSE v \in ExprValues : StringifyText(v) = text)
    ELSE Raise(JErr(<<"SyntaxError: Unexpected end of input">>))

Returns(v, globals) == [e |-> "return", v |-> v, globals |-> globals]
Throws(val, globals) == [e |-> "throw", val |-> val, globals |-> globals]

\* return JSON.stringify({success: true, result: JSON.stringify(r)}), r the
\* outcome of eval(input).
SelfReport(r, globals) ==
    IF r.ok
    THEN Returns(JSON_stringify(JObj(<<Field("success", JBool(TRUE)),
                                       Field("result", JSON_stringify(r.v))>>)),
                 globals)
    ELSE Throws(r.exc, globals)

\* return JSON.stringify({success: true, result: String(n)})
CounterReport(globals) ==
    Returns(JSON_stringify(JObj(<<Field("success", JBool(TRUE)),
                                  Field("result", JStr(DigitText(globals.n)))>>)),
            globals)

\* What the statements of the candidate code do inside the wrapper's try
\* block, in a context whose global object is globals.
Candidate(code, input, globals) ==
    CASE code = "function" -> [e |-> "completes", hasF |-> TRUE, globals |-> globals]
      [] code = "throwError" -> Throws(JErr(<<"Error: boom">>), globals)
      [] code = "throwEmpty" -> Throws(JStr(<<>>), globals)
      [] code = "throwNull" -> Throws(JNull, globals)
      [] code = "syntaxError" -> [e |-> "unparsable"]
      [] code = "loop" -> [e |-> "loop"]
      [] code = "selfReport" -> SelfReport(EvalExpr(FALSE, input), globals)
      [] code = "counter" -> CounterReport([globals EXCEPT !.n = @ + 1])
      [] code = "reportFail" ->
            Returns(JSON_stringify(JObj(<<Field("success", JBool(FALSE))>>)), globals)
      [] code = "reportNumber" ->
            Returns(JSON_stringify(JObj(<<Field("success", JBool(TRUE)),
                                          Field("result", Four)>>)),
                    globals)
      [] code = "returnText" -> Returns(JStr(<<"4">>), globals)

Value(v, globals) == [k |-> "value", v |-> v, globals |-> globals]
Uncaught(msg, globals) == [k |-> "raise", msg |-> msg, globals |-> globals]

\* Lines 62-64: catch (error) { return {success: false, error: error.toString()} }
\* error.toString() on null or undefined is itself a TypeError, thrown out of
\* the wrapper.
CatchBlock(error, globals) ==
    IF error \in {JNull, JUndefined}
    THEN Uncaught(<<"TypeError: Cannot read properties of null (reading 'toString')">>,
                  globals)
    ELSE Value(JObj(<<Field("success", JBool(FALSE)),
                      Field("error", JStr(error.s))>>),
               globals)

\* Lines 60-61: const result = JSON.stringify(eval(input));
\* return {success: true, result}; r is the outcome of eval(input).
ReturnResult(r, globals) ==
    IF r.ok
    THEN Value(JObj(<<Field("success", JBool(TRUE)),
                      Field("result", JSON_stringify(r.v))>>),
               globals)
    ELSE CatchBlock(r.exc, globals)

\* Lines 55-65: the wrapper function, given what the candidate code did.
Wrapper(eff, input, globals) ==
    CASE eff.e = "unparsable" ->
            Uncaught(<<"SyntaxError: Unexpected token '('">>, globals)
      [] eff.e = "loop" -> [k |-> "hang"]
      [] eff.e = "return" -> Value(eff.v, eff.globals)
      [] eff.e = "throw" -> CatchBlock(eff.val, eff.globals)
      [] eff.e = "completes" ->
            ReturnResult(EvalExpr(eff.hasF, input), eff.globals)

\* Lines 54-66 with the binding of line 71: what evaluating
\* "const input = ...; (function() { try { CODE; ... } catch ... })()" yields.
wrapped_code(code, input, globals) ==
    Wrapper(Candidate(code, input, globals), input, globals)

IsDefined(f) == f.v # JUndefined

\* execjs hands the value of the evaluated program to Python as the Python
\* object of its JSON form: an object becomes a dict without its undefined
\* members, a text a str.
ToPython(v) ==
    IF v.t = "obj" THEN JObj(SelectSeq(v.fields, IsDefined)) ELSE v

-----------------------------------------------------------------------------
(* The Python side: lines 33-124.                                          *)

\* The text of a string literal without its quotes, unescaped.
RECURSIVE UnescapeText(_)
UnescapeText(s) ==
    IF s = <<>> THEN <<>>
    ELSE IF Head(s) = Backslash /\ Len(s) >= 2
    THEN <<s[2]>> \o UnescapeText(Tail(Tail(s)))
    ELSE <<Head(s)>> \o UnescapeText(Tail(s))

\* Line 71: const input = <json.dumps(test_case.input)>; the value the
\* JavaScript constant input is bound to.
js_context(input) == UnescapeText(StripEnds(StringifyText(JStr(input))))

\* The texts a successful evaluation can report as its result.
ResultTexts ==
    {StringifyText(v) : v \in ExprValues} \cup {DigitText(n) : n \in 1..9}

\* The JSON documents the programs of the model can return as text.
JsonUniverse ==
    {JObj(<<Field("success", JBool(TRUE)), Field("result", JStr(r))>>) : r \in ResultTexts}
    \cup {JObj(<<Field("success", JBool(TRUE))>>),
          JObj(<<Field("success", JBool(FALSE))>>),
          JObj(<<Field("success", JBool(TRUE)), Field("result", Four)>>),
          Four}

type(x) ==
    CASE x.t = "obj" -> "dict"
      [] x.t = "str" -> "str"
      [] x.t = "num" -> "int"
      [] x.t = "bool" -> "bool"
      [] x.t = "arr" -> "list"
      [] OTHER -> "NoneType"

\* The document a JSON text denotes: the one whose JSON text it is.
JSONDecode(s) ==
    IF \E d \in JsonUniverse : StringifyText(d) = s
    THEN Ok(CHOOSE d \in JsonUniverse : StringifyText(d) = s)
    ELSE Raise(<<"Expecting value: line 1 column 1 (char 0)">>)

\* json.loads as if it took an already decoded dict as it is.
json_loads_lenient(x) ==
    IF x.t = "obj" THEN Ok(x)
    ELSE IF x.t # "str"
    THEN Raise(<<"the JSON object must be str, bytes or bytearray, not ", type(x)>>)
    ELSE JSONDecode(x.s)

\* Line 79: json.loads(execution_result); its argument must be text.
json_loads(x) ==
    IF x.t # "str"
    THEN Raise(<<"the JSON object must be str, bytes or bytearray, not ", type(x)>>)
    ELSE JSONDecode(x.s)

\* dict.get(key, default)
get(d, key, default) ==
    IF \E j \in 1..Len(d.fields) : d.fields[j].k = key
    THEN d.fields[CHOOSE j \in 1..Len(d.fields) : d.fields[j].k = key].v
    ELSE default

\* A TestResult whose expected is filled from the actual output.
TestResult_expected_from_actual(passed, expected, actual, error, input) ==
    [passed |-> passed, expected |-> actual, actual |-> actual,
     error |-> error, input |-> input]

\* Lines 19-24.
TestResult(passed, expected, actual, error, input) ==
    [passed |-> passed, expected |-> expected, actual |-> actual,
     error |-> error, input |-> input]

\* A context made once and used for every case.
execjs_compile_reused(previous) == previous

\* Line 75: ctx = execjs.compile(''): a new context, whatever the previous
\* case left in its own.
execjs_compile(previous) == EmptyGlobals

\* What execjs gives back for the outcome w of the evaluated program.
ToPythonOutcome(w) ==
    IF w.k = "value" THEN Value(ToPython(w.v), w.globals) ELSE w

\* Line 76: ctx.eval(execution_context).
ctx_eval(globals, code, input) ==
    IF runtime = "rejects"
    THEN Uncaught(<<"SyntaxError: Unexpected token 'const'">>, globals)
    ELSE ToPythonOutcome(wrapped_code(code, js_context(input), globals))

\* passed_count incremented for every result, passed or not.
Finished_counting_all(result, inc, globals) ==
    [k |-> "finished", result |-> result, inc |-> 1, globals |-> globals]

\* One pass through the body of the loop: the TestResult appended to results,
\* what is added to passed_count (lines 97-98), and the context's global
\* object afterwards.
Finished(result, inc, globals) ==
    [k |-> "finished", result |-> result, inc |-> inc, globals |-> globals]

ServerErrorPrefix == <<"Server error: ">>

\* Lines 107-114.
except_Exception(test_case, e, globals) ==
    Finished(TestResult(FALSE, test_case.expectedOutput, <<>>,
                        Some(ServerErrorPrefix \o e), Some(test_case.input)),
             0, globals)

\* Lines 84-85: remove the quotes JSON.stringify puts around a text.
strip_quotes(actual_output) ==
    IF startswith(actual_output, Quote) /\ endswith(actual_output, Quote)
    THEN StripEnds(actual_output)
    ELSE actual_output

\* Lines 88-98: compare with the expected output, append, count.
compare(test_case, actual_output, globals) ==
    Finished(TestResult(actual_output = test_case.expectedOutput,
                        test_case.expectedOutput, actual_output, None,
                        Some(test_case.input)),
             IF actual_output = test_case.expectedOutput THEN 1 ELSE 0, globals)

\* Lines 82-98, actual_output being result_dict.get("result", "").
success_branch(test_case, actual_output, globals) ==
    IF actual_output.t # "str"
    THEN except_Exception(test_case,
            <<"'", type(actual_output), "' object has no attribute 'startswith'">>,
            globals)
    ELSE compare(test_case, strip_quotes(actual_output.s), globals)

\* Lines 81-106, for a parsed result_dict.
report(test_case, result_dict, globals) ==
    IF result_dict.t # "obj"
    THEN except_Exception(test_case,
            <<"'", type(result_dict), "' object has no attribute 'get'">>, globals)
    ELSE IF get(result_dict, "success", JBool(FALSE)) = JBool(TRUE)
    THEN success_branch(test_case, get(result_dict, "result", JStr(<<>>)), globals)
    ELSE Finished(TestResult(FALSE, test_case.expectedOutput, <<>>,
                             Some(get(result_dict, "error", JStr(<<"Unknown error">>)).s),
                             Some(test_case.input)),
                  0, globals)

\* Lines 79-114, parsed being the outcome of json.loads(execution_result).
after_loads(test_case, parsed, globals) ==
    IF parsed.ok
    THEN report(test_case, parsed.v, globals)
    ELSE except_Exception(test_case, parsed.exc, globals)

\* Lines 76-114, execution_result being the outcome of ctx.eval.
after_eval(test_case, execution_result) ==
    CASE execution_result.k = "hang" -> execution_result
      [] execution_result.k = "raise" ->
            except_Exception(test_case, execution_result.msg, execution_result.globals)
      [] execution_result.k = "value" ->
            after_loads(test_case, json_loads(execution_result.v),
                        execution_result.globals)

\* Lines 69-114: the body of the loop for one test case, given the global
\* object of the previous case's context.
loop_body(code, test_case, previous) ==
    IF runtime = "unavailable"
    THEN except_Exception(test_case,
            <<"Could not find an available JavaScript runtime.">>, previous)
    ELSE after_eval(test_case,
                    ctx_eval(execjs_compile(previous), code, test_case.input))

-----------------------------------------------------------------------------
(* The score, an exact fraction num/den: the rounding of Python's floats     *)
(* is not modelled.                                                        *)

Fraction(num, den) == [num |-> num, den |-> den]

\* a / b of Python, then * 100.
percentage(a, b) ==
    IF b = 0 THEN Raise(<<"division by zero">>) ELSE Ok(Fraction(a * 100, b))

\* Line 117 without its guard on total_tests.
compute_score_unguarded(passed, total_tests) == percentage(passed, total_tests)

\* Line 117: (passed_count / total_tests) * 100 if total_tests > 0 else 0
compute_score(passed, total_tests) ==
    IF total_tests > 0 THEN percentage(passed, total_tests) ELSE Ok(Fraction(0, 1))

\* Lines 26-30.
CodeTestResponse(res, score, totalTests, passedTests) ==
    [results |-> res, score |-> score, totalTests |-> totalTests,
     passedTests |-> passedTests]

UnsupportedMessage(language) ==
    <<"Language '">> \o language
    \o <<"' is not supported. Only JavaScript is supported in this MVP.">>

-----------------------------------------------------------------------------
(* test_javascript_code, lines 33-124.                                     *)

Init ==
    /\ request \in [code : Codes, language : Languages,
                    testCases : SeqsUpTo(Cases, MaxCases)]
    /\ runtime \in Runtimes
    /\ pc = "start"
    /\ idx = 0
    /\ results = <<>>
    /\ passed_count = 0
    /\ ctx = EmptyGlobals
    /\ cases_run = 0
    /\ response = None

\* Lines 36-48: the language is not JavaScript.
UnsupportedLanguage ==
    /\ pc = "start"
    /\ lower(request.language) # Javascript
    /\ response' = CodeTestResponse(
                       <<TestResult(FALSE, <<>>, <<>>,
                                    Some(UnsupportedMessage(request.language)), None)>>,
                       Fraction(0, 1), 1, 0)
    /\ pc' = "done"
    /\ UNCHANGED <<request, runtime, idx, results, passed_count, ctx,
                   cases_run>>

\* Lines 50-66: the language is JavaScript; the loop begins.
BeginLoop ==
    /\ pc = "start"
    /\ lower(request.language) = Javascript
    /\ results' = <<>>
    /\ passed_count' = 0
    /\ idx' = 1
    /\ pc' = "loop"
    /\ UNCHANGED <<request, runtime, ctx, cases_run, response>>

\* Lines 90, 97-98, 100, 108: what a finished pass through the body of the
\* loop leaves behind.
Record(out) ==
    /\ out.k = "finished"
    /\ results' = Append(results, out.result)
    /\ passed_count' = passed_count + out.inc
    /\ ctx' = out.globals

\* Lines 68-114: one test case, run to its TestResult.
RunCase ==
    /\ pc = "loop"
    /\ idx <= Len(request.testCases)
    /\ Record(loop_body(request.code, request.testCases[idx], ctx))
    /\ idx' = idx + 1
    /\ cases_run' = cases_run + 1
    /\ UNCHANGED <<request, runtime, pc, response>>

\* Lines 68-76: one test case whose program never ends; ctx.eval does not
\* return.
HangCase ==
    /\ pc = "loop"
    /\ idx <= Len(request.testCases)
    /\ loop_body(request.code, request.testCases[idx], ctx).k = "hang"
    /\ pc' = "hung"
    /\ cases_run' = cases_run + 1
    /\ UNCHANGED <<request, runtime, idx, results, passed_count, ctx,
                   response>>

\* Lines 119-124, score being the outcome of line 117.
Respond(total_tests, score) ==
    IF score.ok
    THEN /\ response' = CodeTestResponse(results, score.v, total_tests, passed_count)
         /\ pc' = "done"
    ELSE /\ response' = None
         /\ pc' = "raised"

\* Lines 116-124: the loop is over; the response is returned (or the
\* computation of the score raises).
Return ==
    /\ pc = "loop"
    /\ idx > Len(request.testCases)
    /\ Respond(Len(request.testCases),
               compute_score(passed_count, Len(request.testCases)))
    /\ UNCHANGED <<request, runtime, idx, results, passed_count, ctx,
                   cases_run>>

Next ==
    \/ UnsupportedLanguage
    \/ BeginLoop
    \/ RunCase
    \/ HangCase
    \/ Return

Spec == Init /\ [][Next]_vars

-----------------------------------------------------------------------------
(* Properties.                                                             *)

\* The language tags of the model that spell javascript in some case.
Supported == request.language \in {Javascript, JavaScriptMixed}

NCases == Len(request.testCases)

PassedIn(res) == {j \in 1..Len(res) : res[j].passed}

\* Case j runs to the end of the candidate code and eval(input) yields a
\* defined value.
Completes(j) ==
    /\ runtime = "runs"
    /\ Candidate(request.code, request.testCases[j].input, EmptyGlobals).e = "completes"
    /\ EvalExpr(TRUE, request.testCases[j].input).ok
    /\ EvalExpr(TRUE, request.testCases[j].input).v # JUndefined

Produced(j) == EvalExpr(TRUE, request.testCases[j].input).v

\* The candidate code throws a value in case j, or the evaluation of the
\* input does.
CandidateThrows(j) ==
    /\ runtime = "runs"
    /\ \/ Candidate(request.code, request.testCases[j].input, EmptyGlobals).e = "throw"
       \/ /\ Candidate(request.code, request.testCases[j].input, EmptyGlobals).e
                = "completes"
          /\ ~EvalExpr(TRUE, request.testCases[j].input).ok

\* The value thrown in case j.
Thrown(j) ==
    IF Candidate(request.code, request.testCases[j].input, EmptyGlobals).e = "throw"
    THEN Candidate(request.code, request.testCases[j].input, EmptyGlobals).val
    ELSE EvalExpr(TRUE, request.testCases[j].input).exc

HasServerErrorPrefix(msg) == Len(msg) > 0 /\ msg[1] = ServerErrorPrefix[1]

\* C1: in every response returned, results has totalTests elements and
\* passedTests is the number of results whose passed is true.
C1_CountsAgree ==
    pc = "done" =>
        /\ Len(response.results) = response.totalTests
        /\ response.passedTests = Cardinality(PassedIn(response.results))

\* A response with a passing case and an erroring case.
C1_Witness ==
    /\ pc = "done"
    /\ Supported
    /\ Len(response.results) = 2
    /\ response.results[1].passed
    /\ response.results[2].error # None

\* C2: with the supported language, the response holds one result per test
\* case, in the order of the cases: result j echoes the input and the expected
\* output of case j.
C2_OneResultPerCaseInOrder ==
    (pc = "done" /\ Supported) =>
        /\ Len(response.results) = NCases
        /\ \A j \in 1..NCases :
              /\ response.results[j].input = Some(request.testCases[j].input)
              /\ response.results[j].expected = request.testCases[j].expectedOutput

\* Two different cases, the first failing by a mismatch, the second by an error.
C2_Witness ==
    /\ pc = "done"
    /\ Supported
    /\ NCases = 2
    /\ request.testCases[1] # request.testCases[2]
    /\ ~response.results[1].passed
    /\ response.results[1].error = None
    /\ response.results[2].error # None

\* C3: every case recorded so far has the result it gets when run alone in a
\* new context, whatever the cases before it did, and a response of the
\* supported language reports every case.
C3_CasesIndependent ==
    Supported =>
        /\ \A j \in 1..Len(results) :
              results[j]
                = loop_body(request.code, request.testCases[j], EmptyGlobals).result
        /\ pc = "done" => (response.results = results /\ Len(results) = NCases)

\* A case that passes after a case that ended in an error.
C3_Witness ==
    /\ pc = "done"
    /\ Supported
    /\ NCases = 2
    /\ response.results[1].error # None
    /\ response.results[2].passed

\* C4: the score is 100 * passedTests / totalTests when totalTests > 0, so
\* between 0 and 100, and 0 when totalTests = 0; computing it never divides
\* by zero.
C4_ScoreIsPercentage ==
    /\ pc # "raised"
    /\ pc = "done" =>
          /\ response.score.den > 0
          /\ IF response.totalTests > 0
             THEN /\ response.score.num * response.totalTests
                       = 100 * response.passedTests * response.score.den
                  /\ 0 <= response.score.num
                  /\ response.score.num <= 100 * response.score.den
             ELSE response.score.num = 0

\* One of two cases passed: a score of 50.
C4_Witness ==
    /\ pc = "done"
    /\ response.totalTests = 2
    /\ response.passedTests = 1
    /\ response.score.num * 2 = 100 * response.score.den

\* C5: an unsupported language gives the one synthetic failing result with
\* totalTests = 1, passedTests = 0, score = 0 and runs no case, however many
\* cases were sent; the supported language never gives it.
C5_UnsupportedLanguageShortCircuits ==
    pc = "done" =>
        IF Supported
        THEN /\ response.totalTests = NCases
             /\ cases_run = NCases
             /\ \A j \in 1..Len(response.results) : response.results[j].input # None
        ELSE /\ response.results
                  = <<[passed |-> FALSE, expected |-> <<>>, actual |-> <<>>,
                       error |-> Some(UnsupportedMessage(request.language)),
                       input |-> None]>>
             /\ response.totalTests = 1
             /\ response.passedTests = 0
             /\ response.score.num = 0
             /\ cases_run = 0

\* An unsupported language with two cases sent.
C5_Witness ==
    /\ pc = "done"
    /\ ~Supported
    /\ NCases = 2
    /\ response.totalTests = 1

\* C6: a case whose candidate code throws has passed = false, actual = "" and
\* an error that is present and not empty, whatever was thrown.
C6_ThrowingCaseHasError ==
    Supported =>
        \A j \in 1..Len(results) :
            CandidateThrows(j) =>
                /\ ~results[j].passed
                /\ results[j].actual = <<>>
                /\ results[j].error # None
                /\ Len(results[j].error.v) > 0

\* A case recorded for a candidate that throws the empty text.
C6_Witness ==
    /\ Supported
    /\ Len(results) >= 1
    /\ CandidateThrows(1)
    /\ Thrown(1) = JStr(<<>>)

\* C7: a case that runs without error has as actual the JSON text of the
\* produced value without the quotes of a text, passes exactly when that
\* equals the expected output, and a passing result has actual = expected
\* and no error.
C7_PassesIffNormalizedEqualsExpected ==
    (pc = "done" /\ Supported) =>
        \A j \in 1..NCases :
            /\ Completes(j) =>
                  /\ response.results[j].actual
                        = strip_quotes(StringifyText(Produced(j)))
                  /\ response.results[j].passed
                        <=> (strip_quotes(StringifyText(Produced(j)))
                                = request.testCases[j].expectedOutput)
            /\ response.results[j].passed =>
                  /\ response.results[j].actual = response.results[j].expected
                  /\ response.results[j].error = None

\* C8: a case producing the text t has actual = t and passes against the
\* expected output t; a produced value that is not a text is reported as its
\* JSON text, unaltered.
C8_TextComparesAsBareText ==
    (pc = "done" /\ Supported) =>
        \A j \in 1..NCases :
            Completes(j) =>
                IF Produced(j).t = "str"
                THEN /\ response.results[j].actual = Produced(j).s
                     /\ request.testCases[j].expectedOutput = Produced(j).s
                           => response.results[j].passed
                ELSE response.results[j].actual = StringifyText(Produced(j))

\* C9: the execution of a case is bounded: the function is never left waiting
\* on a candidate program that does not return, with no response to come.
C9_EveryCaseEnds == pc # "hung"

\* C10: a case whose candidate code throws is reported with the candidate's
\* own message, without the harness prefix; a case that fails because execjs
\* does not run the program carries the prefix.
C10_ErrorsClassifiedByOrigin ==
    (pc = "done" /\ Supported) =>
        \A j \in 1..NCases :
            /\ (CandidateThrows(j) /\ Thrown(j) # JNull) =>
                  /\ response.results[j].error = Some(Thrown(j).s)
                  /\ ~HasServerErrorPrefix(response.results[j].error.v)
            /\ runtime # "runs" =>
                  /\ response.results[j].error # None
                  /\ HasServerErrorPrefix(response.results[j].error.v)

====
